---- MODULE Spec2Model ----
(***************************************************************************)
(* Model of src/histogram.py: a Streamlit script that reads every uploaded *)
(* CSV file, previews it, lets the user pick numeric columns, and renders  *)
(* per-column statistics, histograms and a correlation heatmap.            *)
(*                                                                         *)
(* One script run is modelled as a sequence of steps over the uploaded     *)
(* files.  `out` is the page: the elements rendered so far, in order.      *)
(***************************************************************************)
EXTENDS Integers, Sequences, FiniteSets, TLC

VARIABLES
    uploaded_files,   \* the list st.file_uploader returned (line 35)
    show_corr,        \* sidebar checkbox (line 29)
    max_cols_default, \* sidebar slider (line 28)
    pc,               \* position of the script
    idx,              \* enumerate index of the per-file loop (0-based)
    pos,              \* stream position of every uploaded file
    df,               \* the DataFrame of the current file
    numeric_cols,     \* line 63
    default_pick,     \* line 69
    cols_to_plot,     \* line 70
    col,              \* position of the per-column loop in cols_to_plot
    out,              \* elements rendered on the page, in order
    exc,              \* the exception that ended the run, or "none"
    keys,             \* widget keys registered during this run
    prev,             \* the page of the previous run of the script, if any
    probe             \* two (filename, index) pairs and their widget keys

vars == <<uploaded_files, show_corr, max_cols_default, pc, idx, pos, df,
          numeric_cols, default_pick, cols_to_plot, col, out, exc, keys,
          prev, probe>>

config == <<show_corr, max_cols_default>>
locals == <<df, numeric_cols, default_pick, cols_to_plot, col>>

----------------------------------------------------------------------------
(* Bounds of the model *)

MaxFiles == 2      \* longest batch of uploaded files
MaxNameLen == 2    \* longest filename tried for the widget key
MaxIdx == 11       \* largest loop index tried for the widget key

(* Program constants *)

SliderMin == 1     \* st.slider(..., 1, 12, 5, 1)
SliderMax == 12
SliderDefault == 5
CorrMinCols == 2   \* len(numeric_cols) >= 2

----------------------------------------------------------------------------
(* Helpers *)

Range(s) == {s[i] : i \in 1..Len(s)}

Min(a, b) == IF a < b THEN a ELSE b

Injective(s) == \A i, j \in 1..Len(s) : s[i] = s[j] => i = j

\* Python's s[:k] for k >= 0
SliceToOffByOne(s, k) == SubSeq(s, 1, Min(k - 1, Len(s)))
SliceTo(s, k) == SubSeq(s, 1, Min(k, Len(s)))

Digit(d) == CASE d = 0 -> "0" [] d = 1 -> "1" [] d = 2 -> "2" [] d = 3 -> "3"
              [] d = 4 -> "4" [] d = 5 -> "5" [] d = 6 -> "6" [] d = 7 -> "7"
              [] d = 8 -> "8" [] d = 9 -> "9"

\* str(n) of a non-negative integer, as a sequence of characters
RECURSIVE Str(_)
Str(n) == IF n < 10 THEN <<Digit(n)>> ELSE Str(n \div 10) \o <<Digit(n % 10)>>

\* f"cols_{uploaded_file.name}_{idx}"
WidgetKeyNoSeparator(name, i) == <<"c", "o", "l", "s", "_">> \o name \o Str(i)
WidgetKey(name, i) == <<"c", "o", "l", "s", "_">> \o name \o <<"_">> \o Str(i)

----------------------------------------------------------------------------
(* Text decoding, as pandas.read_csv applies it to the bytes of a file *)

\* strict UTF-8, 1- to 3-byte forms
RECURSIVE Utf8Valid(_)
Utf8Valid(b) ==
    IF b = <<>> THEN TRUE
    ELSE IF b[1] < 128 THEN Utf8Valid(Tail(b))
    ELSE IF b[1] \in 194..223
         THEN Len(b) >= 2 /\ b[2] \in 128..191 /\ Utf8Valid(SubSeq(b, 3, Len(b)))
    ELSE IF b[1] \in 224..239
         THEN Len(b) >= 3 /\ b[2] \in 128..191 /\ b[3] \in 128..191
              /\ (b[1] = 224 => b[2] >= 160)
              /\ Utf8Valid(SubSeq(b, 4, Len(b)))
    ELSE FALSE

\* strict Shift_JIS: ASCII, half-width katakana, or lead byte + trail byte
RECURSIVE SjisValid(_)
SjisValid(b) ==
    IF b = <<>> THEN TRUE
    ELSE IF b[1] < 128 \/ b[1] \in 161..223 THEN SjisValid(Tail(b))
    ELSE IF b[1] \in (129..159) \cup (224..239)
         THEN Len(b) >= 2 /\ b[2] \in (64..126) \cup (128..252)
              /\ SjisValid(SubSeq(b, 3, Len(b)))
    ELSE FALSE

Decodes(b, encoding) ==
    CASE encoding = "utf-8" -> Utf8Valid(b)
      [] encoding = "shift_jis" -> SjisValid(b)

\* keyword arguments pandas.read_csv accepts, among those of interest here
ReadCsvParams == {"encoding", "encoding_errors", "sep", "header"}

\* pd.read_csv(file, encoding=..., **kwargs) on a stream at position p
PdReadCsv(file, p, encoding, kwargs) ==
    LET data == SubSeq(file.raw, p + 1, Len(file.raw)) IN
    IF ~(kwargs \subseteq ReadCsvParams)
    THEN [ok |-> FALSE, exc |-> "TypeError", df |-> file.table]
    ELSE IF data = <<>>
    THEN [ok |-> FALSE, exc |-> "EmptyDataError", df |-> file.table]
    ELSE IF "encoding_errors" \notin kwargs /\ ~Decodes(data, encoding)
    THEN [ok |-> FALSE, exc |-> "UnicodeDecodeError", df |-> file.table]
    ELSE [ok |-> TRUE, exc |-> "none", df |-> file.table]

\* file.seek(target) on a stream at position p: the new position
FileSeek(p, target) == target

\* the keyword arguments of the two read attempts of read_csv_safely
FirstKwargs == {}
FallbackKwargs == {"encoding", "errors"}

----------------------------------------------------------------------------
(* DataFrames *)

NoDf == [cols |-> <<>>, nrows |-> 0]

\* np.number: integer and floating dtypes, not bool, not object
IsNumber(dtype) == dtype \in {"int64", "float64"}

ColumnNames(d) == [i \in 1..Len(d.cols) |-> d.cols[i].name]

\* df.select_dtypes(include=[np.number]).columns.tolist()
SelectNumeric(d) ==
    LET Keep(c) == IsNumber(c.dtype)
        kept == SelectSeq(d.cols, Keep)
    IN [i \in 1..Len(kept) |-> kept[i].name]

\* len(numeric_cols) == 0
NoNumericDataNever(nc) == FALSE
NoNumericData(nc) == Len(nc) = 0

\* len(cols_to_plot) == 0
EmptySelectionNever(sel) == FALSE
EmptySelection(sel) == Len(sel) = 0

\* show_corr and len(numeric_cols) >= 2
CorrGateAnyCols(sc, nc) == sc /\ Len(nc) >= 1
CorrGate(sc, nc) == sc /\ Len(nc) >= CorrMinCols

\* the columns of corr = df[numeric_cols].corr(); sel is cols_to_plot
CorrColumnsSelected(nc, sel) == sel
CorrColumns(nc, sel) == nc

\* what st.multiselect can return: the options the user picked, in pick order
Selections(options) ==
    {s \in UNION {[1..n -> Range(options)] : n \in 0..Len(options)} : Injective(s)}

----------------------------------------------------------------------------
(* The uploaded files tried *)

Ascii == <<120, 10, 49>>            \* "x\n1"
Utf8Text == <<195, 169, 10, 49>>    \* e-acute in UTF-8
SjisText == <<130, 160, 10, 49>>    \* hiragana A in Shift_JIS, not UTF-8
BadText == <<255, 10, 49>>          \* 0xFF: neither UTF-8 nor Shift_JIS

Column(n, t) == [name |-> n, dtype |-> t]

Catalog == <<
    [name |-> <<"a">>, raw |-> Ascii,
     table |-> [cols |-> <<Column("x", "int64"), Column("s", "object"),
                           Column("y", "float64"), Column("z", "int64")>>,
                nrows |-> 3]],
    [name |-> <<"a", "_", "1">>, raw |-> Utf8Text,
     table |-> [cols |-> <<Column("s", "object"), Column("b", "bool")>>,
                nrows |-> 2]],
    [name |-> <<"a">>, raw |-> SjisText,
     table |-> [cols |-> <<Column("s", "object"), Column("x", "int64")>>,
                nrows |-> 1]],
    [name |-> <<"a", "_", "1">>, raw |-> Ascii,
     table |-> [cols |-> <<Column("s", "object"), Column("x", "int64")>>,
                nrows |-> 4]],
    [name |-> <<"b">>, raw |-> BadText,
     table |-> [cols |-> <<Column("x", "int64")>>, nrows |-> 1]]
>>

Files == Range(Catalog)

Batches == UNION {[1..n -> Files] : n \in 0..MaxFiles}

----------------------------------------------------------------------------
(* Page elements *)

Element(i, kind, cols, dflt, value, key, shape, text) ==
    [file |-> i, kind |-> kind, cols |-> cols, dflt |-> dflt, value |-> value,
     key |-> key, shape |-> shape, text |-> text]

Plain(i, kind) == Element(i, kind, <<>>, <<>>, <<>>, <<>>, <<0, 0>>, "")

CurFile == uploaded_files[idx + 1]

NoRun == [files |-> <<>>, out |-> <<>>, ran |-> FALSE]
NoProbe == [n1 |-> <<>>, i1 |-> 0, n2 |-> <<>>, i2 |-> 0,
            key1 |-> <<>>, key2 |-> <<>>, made |-> FALSE]

----------------------------------------------------------------------------
(* The script *)

Init ==
    /\ uploaded_files \in Batches
    /\ show_corr \in BOOLEAN
    /\ max_cols_default \in SliderMin..SliderMax
    /\ pc = "start"
    /\ idx = 0
    /\ pos = [i \in 1..Len(uploaded_files) |-> 0]
    /\ df = NoDf
    /\ numeric_cols = <<>>
    /\ default_pick = <<>>
    /\ cols_to_plot = <<>>
    /\ col = 1
    /\ out = <<>>
    /\ exc = "none"
    /\ keys = {}
    /\ prev = NoRun
    /\ probe = NoProbe

\* an exception nothing catches: Streamlit shows it and the run ends
Raise(e) ==
    /\ exc' = e
    /\ out' = Append(out, Element(idx, "exception", <<>>, <<>>, <<>>, <<>>,
                                  <<0, 0>>, e))
    /\ pc' = "aborted"

\* the end of one iteration of `for idx, uploaded_file in enumerate(...)`
NextFileAgain(i, n) == IF i + 1 < n THEN <<"header", 0>> ELSE <<"done", i>>
NextFile(i, n) == IF i + 1 < n THEN <<"header", i + 1>> ELSE <<"done", i>>

Advance ==
    /\ pc' = NextFile(idx, Len(uploaded_files))[1]
    /\ idx' = NextFile(idx, Len(uploaded_files))[2]

\* if uploaded_files: ... else: st.info(...)
Start ==
    /\ pc = "start"
    /\ IF Len(uploaded_files) > 0
       THEN /\ pc' = "header"
            /\ idx' = 0
            /\ out' = out
       ELSE /\ pc' = "done"
            /\ idx' = idx
            /\ out' = Append(out, Plain(0, "upload_prompt"))
    /\ UNCHANGED <<uploaded_files, config, pos, locals, exc, keys, prev, probe>>

\* st.markdown("---"); st.subheader(...)
Header ==
    /\ pc = "header"
    /\ out' = Append(out, Element(idx, "header", <<>>, <<>>, <<>>, CurFile.name,
                                  <<idx + 1, 0>>, ""))
    /\ pc' = "read"
    /\ UNCHANGED <<uploaded_files, config, idx, pos, locals, exc, keys, prev, probe>>

\* read_csv_safely: try: return pd.read_csv(file)
ReadFirst ==
    /\ pc = "read"
    /\ LET r == PdReadCsv(CurFile, pos[idx + 1], "utf-8", FirstKwargs) IN
       /\ pos' = [pos EXCEPT ![idx + 1] = Len(CurFile.raw)]
       /\ IF r.ok
          THEN /\ df' = r.df
               /\ pc' = "preview"
               /\ UNCHANGED <<out, exc>>
          ELSE IF r.exc = "UnicodeDecodeError"
          THEN /\ pc' = "except"
               /\ UNCHANGED <<df, out, exc>>
          ELSE /\ Raise(r.exc)
               /\ df' = df
    /\ UNCHANGED <<uploaded_files, config, idx, numeric_cols, default_pick,
                   cols_to_plot, col, keys, prev, probe>>

\* except UnicodeDecodeError: file.seek(0); return pd.read_csv(file, ...)
ReadFallback ==
    /\ pc = "except"
    /\ LET p0 == FileSeek(pos[idx + 1], 0)
           r == PdReadCsv(CurFile, p0, "shift_jis", FallbackKwargs)
       IN
       /\ pos' = [pos EXCEPT ![idx + 1] = IF r.exc = "TypeError" THEN p0
                                          ELSE Len(CurFile.raw)]
       /\ IF r.ok
          THEN /\ df' = r.df
               /\ pc' = "preview"
               /\ UNCHANGED <<out, exc>>
          ELSE /\ Raise(r.exc)
               /\ df' = df
    /\ UNCHANGED <<uploaded_files, config, idx, numeric_cols, default_pick,
                   cols_to_plot, col, keys, prev, probe>>

\* st.caption(rows, columns); st.dataframe(df.head())
Preview ==
    /\ pc = "preview"
    /\ out' = Append(out, Element(idx, "preview", ColumnNames(df), <<>>, <<>>,
                                  <<>>, <<df.nrows, Len(df.cols)>>, ""))
    /\ pc' = "detect"
    /\ UNCHANGED <<uploaded_files, config, idx, pos, locals, exc, keys, prev, probe>>

\* numeric_cols = ...; if len(numeric_cols) == 0: st.warning(...); continue
Detect ==
    /\ pc = "detect"
    /\ numeric_cols' = SelectNumeric(df)
    /\ IF NoNumericData(numeric_cols')
       THEN /\ out' = Append(out, Plain(idx, "warning"))
            /\ Advance
       ELSE /\ pc' = "select"
            /\ UNCHANGED <<out, idx>>
    /\ UNCHANGED <<uploaded_files, config, pos, df, default_pick, cols_to_plot,
                   col, exc, keys, prev, probe>>

\* default_pick = numeric_cols[:max_cols_default]; cols_to_plot = st.multiselect(...)
Select ==
    /\ pc = "select"
    /\ default_pick' = SliceTo(numeric_cols, max_cols_default)
    /\ LET key == WidgetKey(CurFile.name, idx) IN
       IF key \in keys
       THEN /\ Raise("DuplicateWidgetID")
            /\ UNCHANGED <<cols_to_plot, keys>>
       ELSE \E sel \in Selections(numeric_cols) :
            /\ cols_to_plot' = sel
            /\ keys' = keys \cup {key}
            /\ out' = Append(out, Element(idx, "multiselect", numeric_cols,
                                          default_pick', sel, key, <<0, 0>>, ""))
            /\ pc' = "branch"
            /\ exc' = exc
    /\ UNCHANGED <<uploaded_files, config, idx, pos, df, numeric_cols, col,
                   prev, probe>>

\* if len(cols_to_plot) == 0: st.info(...) else: ...
Branch ==
    /\ pc = "branch"
    /\ IF EmptySelection(cols_to_plot)
       THEN /\ out' = Append(out, Plain(idx, "info"))
            /\ Advance
            /\ col' = col
       ELSE /\ pc' = "plot"
            /\ col' = 1
            /\ UNCHANGED <<out, idx>>
    /\ UNCHANGED <<uploaded_files, config, pos, df, numeric_cols, default_pick,
                   cols_to_plot, exc, keys, prev, probe>>

\* for col in cols_to_plot: st.write(df[col].describe()); sns.histplot(...)
PlotColumn ==
    /\ pc = "plot"
    /\ IF col <= Len(cols_to_plot)
       THEN /\ out' = out \o
                 << Element(idx, "describe", <<cols_to_plot[col]>>, <<>>, <<>>,
                            <<>>, <<0, 0>>, ""),
                    Element(idx, "histplot", <<cols_to_plot[col]>>, <<>>, <<>>,
                            <<>>, <<0, 0>>, "") >>
            /\ col' = col + 1
            /\ pc' = pc
       ELSE /\ pc' = "corr"
            /\ UNCHANGED <<out, col>>
    /\ UNCHANGED <<uploaded_files, config, idx, pos, df, numeric_cols,
                   default_pick, cols_to_plot, exc, keys, prev, probe>>

\* if show_corr and len(numeric_cols) >= 2: corr = df[numeric_cols].corr(); heatmap
Correlate ==
    /\ pc = "corr"
    /\ IF CorrGate(show_corr, numeric_cols)
       THEN LET labels == CorrColumns(numeric_cols, cols_to_plot) IN
            out' = Append(out, Element(idx, "heatmap", labels, <<>>, <<>>, <<>>,
                                       <<Len(labels), Len(labels)>>, ""))
       ELSE out' = out
    /\ Advance
    /\ UNCHANGED <<uploaded_files, config, pos, locals, exc, keys, prev, probe>>

Next ==
    \/ Start
    \/ Header
    \/ ReadFirst
    \/ ReadFallback
    \/ Preview
    \/ Detect
    \/ Select
    \/ Branch
    \/ PlotColumn
    \/ Correlate

Spec == Init /\ [][Next]_vars

----------------------------------------------------------------------------
(* Two runs of the script in one session: Streamlit runs the script again  *)
(* when the user changes the uploaded files; the first page is kept in     *)
(* `prev` so that the two pages can be compared.                           *)

Rerun ==
    /\ pc \in {"done", "aborted"}
    /\ ~prev.ran
    /\ prev' = [files |-> uploaded_files, out |-> out, ran |-> TRUE]
    /\ uploaded_files' \in Batches
    /\ pos' = [i \in 1..Len(uploaded_files') |-> 0]
    /\ pc' = "start"
    /\ idx' = 0
    /\ df' = NoDf
    /\ numeric_cols' = <<>>
    /\ default_pick' = <<>>
    /\ cols_to_plot' = <<>>
    /\ col' = 1
    /\ out' = <<>>
    /\ exc' = "none"
    /\ keys' = {}
    /\ UNCHANGED <<config, probe>>

NextPair ==
    \/ Next
    \/ Rerun

\* the first run starts from the widgets' default values (lines 28-29)
InitPair ==
    /\ Init
    /\ show_corr = TRUE
    /\ max_cols_default = SliderDefault

SpecPair == InitPair /\ [][NextPair]_vars

----------------------------------------------------------------------------
(* The widget key alone, on filenames and loop indexes of a batch *)

Alphabet == {"a", "_", "1"}

Names == UNION {[1..n -> Alphabet] : n \in 1..MaxNameLen}

KeyInit ==
    /\ uploaded_files = <<>>
    /\ show_corr = TRUE
    /\ max_cols_default = SliderMin
    /\ pc = "start"
    /\ idx = 0
    /\ pos = <<>>
    /\ df = NoDf
    /\ numeric_cols = <<>>
    /\ default_pick = <<>>
    /\ cols_to_plot = <<>>
    /\ col = 1
    /\ out = <<>>
    /\ exc = "none"
    /\ keys = {}
    /\ prev = NoRun
    /\ \E n1 \in Names, n2 \in Names, i1 \in 0..MaxIdx, i2 \in 0..MaxIdx :
          probe = [n1 |-> n1, i1 |-> i1, n2 |-> n2, i2 |-> i2,
                   key1 |-> <<>>, key2 |-> <<>>, made |-> FALSE]

\* key=f"cols_{uploaded_file.name}_{idx}" for the two files
MakeKeys ==
    /\ ~probe.made
    /\ probe' = [probe EXCEPT !.key1 = WidgetKey(probe.n1, probe.i1),
                              !.key2 = WidgetKey(probe.n2, probe.i2),
                              !.made = TRUE]
    /\ UNCHANGED <<uploaded_files, config, pc, idx, pos, locals, out, exc,
                   keys, prev>>

KeyNext == MakeKeys

SpecKey == KeyInit /\ [][KeyNext]_vars

----------------------------------------------------------------------------
(* Vocabulary of the properties *)

Finished == pc \in {"done", "aborted"}

Indexes == 0..(Len(uploaded_files) - 1)

FileAt(i) == uploaded_files[i + 1]

\* the iteration of file i is over
Completed(i) == i < idx \/ pc = "done"

ElementsOf(o, i) == LET OfFile(e) == e.file = i IN SelectSeq(o, OfFile)

Kinds(s) == [k \in 1..Len(s) |-> s[k].kind]

HasKind(o, i, kind) == \E k \in 1..Len(o) : o[k].file = i /\ o[k].kind = kind

\* the kinds of the elements of file i rendered after its element `kind`
KindsAfter(i, kind) ==
    LET es == ElementsOf(out, i)
        at == CHOOSE k \in 1..Len(es) : es[k].kind = kind
    IN Kinds(SubSeq(es, at + 1, Len(es)))

\* what the user selected for file i on page o (empty if no selector was shown)
Picked(o, i) ==
    {o[k].value : k \in {j \in 1..Len(o) : o[j].file = i /\ o[j].kind = "multiselect"}}

\* the numeric columns of a table, stated on the dtypes
NumericNames(t) ==
    {t.cols[k].name : k \in {j \in 1..Len(t.cols) : t.cols[j].dtype \in {"int64", "float64"}}}

PosIn(t, n) == CHOOSE k \in 1..Len(t.cols) : t.cols[k].name = n

\* s lists exactly the numeric columns of t, in the order of t's columns
NumericInOrder(s, t) ==
    /\ Range(s) = NumericNames(t)
    /\ Len(s) = Cardinality(NumericNames(t))
    /\ \A a, b \in 1..Len(s) : a < b => PosIn(t, s[a]) < PosIn(t, s[b])

InvalidUtf8ValidSjis(f) == ~Utf8Valid(f.raw) /\ SjisValid(f.raw)

\* the file's first read attempt returns a DataFrame
ReadsAsUtf8(f) == Utf8Valid(f.raw) /\ f.raw # <<>>

----------------------------------------------------------------------------
(* C1: when the ingestion of a file F fails (the UTF-8 attempt and the     *)
(* Shift_JIS attempt both fail), the failure is shown for F only: every    *)
(* other file of the batch, before or after F, is still ingested and gets  *)
(* its preview.                                                            *)
C1_FailureIsPerFile ==
    Finished =>
        \A f \in Indexes :
            (HasKind(out, f, "exception") /\ ~Utf8Valid(FileAt(f).raw)
                 /\ ~SjisValid(FileAt(f).raw)) =>
                \A g \in Indexes \ {f} :
                    ReadsAsUtf8(FileAt(g)) => HasKind(out, g, "preview")

(* C2: a file whose bytes are invalid UTF-8 but valid Shift_JIS never      *)
(* makes read_csv_safely raise: once its read is over the stream was reset *)
(* and the script is at the preview of that file with its Dataset.         *)
C2_ShiftJisFallbackSucceeds ==
    \A i \in Indexes :
        (idx = i /\ InvalidUtf8ValidSjis(FileAt(i)) /\ pc \notin {"header", "read", "except"})
            => (pc # "aborted" /\ exc = "none" /\ HasKind(out, i, "exception") = FALSE)

(* C3: for an ingested file without numeric columns the only output after  *)
(* the preview is the "no numeric data" warning (no selector, statistics,  *)
(* histogram or heatmap, whatever the options), and the loop goes on to    *)
(* the next file.                                                          *)
C3_NoNumericOnlyWarning ==
    \A i \in Indexes :
        (HasKind(out, i, "preview") /\ NumericNames(FileAt(i).table) = {}) =>
            /\ KindsAfter(i, "preview") \in {<<>>, <<"warning">>}
            /\ (idx = i => pc \in {"detect", "done"})
            /\ Completed(i) => KindsAfter(i, "preview") = <<"warning">>
            /\ (pc = "done" /\ i + 1 < Len(uploaded_files)) => HasKind(out, i + 1, "header")

C3_Witness ==
    /\ pc = "done"
    /\ Len(uploaded_files) = 2
    /\ show_corr
    /\ NumericNames(FileAt(0).table) = {}
    /\ Kinds(ElementsOf(out, 0)) = <<"header", "preview", "warning">>
    /\ HasKind(out, 1, "heatmap")

(* C4: a heatmap is rendered for a file only if the show-correlation       *)
(* option is on and the file has at least 2 numeric columns; with fewer    *)
(* columns the step is skipped without an error (the only exceptions of a  *)
(* run are raised while a file is read, before its preview).               *)
C4_CorrelationGate ==
    /\ \A k \in 1..Len(out) :
          out[k].kind = "heatmap" =>
              /\ show_corr
              /\ Cardinality(NumericNames(FileAt(out[k].file).table)) >= 2
    /\ \A i \in Indexes :
          (HasKind(out, i, "describe") /\ Completed(i)
               /\ Cardinality(NumericNames(FileAt(i).table)) < 2) =>
              /\ ~HasKind(out, i, "heatmap")
              /\ ~HasKind(out, i, "exception")
    /\ (pc = "aborted") => ~HasKind(out, idx, "preview")

C4_Witness ==
    /\ pc = "done"
    /\ show_corr
    /\ Len(uploaded_files) = 1
    /\ Cardinality(NumericNames(FileAt(0).table)) = 1
    /\ Kinds(ElementsOf(out, 0)) =
           <<"header", "preview", "multiselect", "describe", "histplot">>

(* C5: for a file with numeric columns of which the user selected none,    *)
(* only the "select columns" prompt follows the selector: no statistics,   *)
(* histogram or heatmap, no error, and the rest of the batch is processed. *)
C5_EmptySelectionHalts ==
    \A i \in Indexes :
        (\E k \in 1..Len(out) :
             out[k].file = i /\ out[k].kind = "multiselect" /\ out[k].value = <<>>) =>
            /\ KindsAfter(i, "multiselect") \in {<<>>, <<"info">>}
            /\ (idx = i => pc \in {"branch", "done"})
            /\ Completed(i) => KindsAfter(i, "multiselect") = <<"info">>
            /\ (pc = "done" /\ i + 1 < Len(uploaded_files)) => HasKind(out, i + 1, "header")

C5_Witness ==
    /\ pc = "done"
    /\ show_corr
    /\ Len(uploaded_files) = 2
    /\ Cardinality(NumericNames(FileAt(0).table)) >= 2
    /\ Kinds(ElementsOf(out, 0)) = <<"header", "preview", "multiselect", "info">>
    /\ HasKind(out, 1, "heatmap")

(* C6: the numeric column set is a subset of the Dataset's columns; the    *)
(* selection is a subset of it and statistics and histograms are rendered  *)
(* only for selected numeric columns; a correlation matrix has the full    *)
(* numeric column set as rows/columns, in the Dataset's column order,      *)
(* whatever the selection.                                                 *)
C6_ColumnSets ==
    /\ pc \in {"select", "branch", "plot", "corr"} =>
          /\ Range(numeric_cols) \subseteq Range(ColumnNames(df))
          /\ df = FileAt(idx).table
    /\ pc \in {"branch", "plot", "corr"} =>
          Range(cols_to_plot) \subseteq Range(numeric_cols)
    /\ \A i \in Indexes :
          LET t == FileAt(i).table
              N == NumericNames(t)
              selected == UNION {Range(v) : v \in Picked(out, i)}
          IN
          \A k \in 1..Len(out) :
              out[k].file = i =>
                  /\ out[k].kind = "multiselect" =>
                        /\ Range(out[k].cols) = N
                        /\ Range(out[k].value) \subseteq Range(out[k].cols)
                  /\ out[k].kind \in {"describe", "histplot"} =>
                        /\ Range(out[k].cols) \subseteq N
                        /\ Range(out[k].cols) \subseteq selected
                  /\ out[k].kind = "heatmap" =>
                        /\ NumericInOrder(out[k].cols, t)
                        /\ out[k].shape = <<Cardinality(N), Cardinality(N)>>

C6_Witness ==
    \E k \in 1..Len(out) :
        /\ out[k].kind = "heatmap"
        /\ out[k].cols = <<"x", "y", "z">>
        /\ cols_to_plot = <<"z", "x">>
        /\ out[k].file = idx

\* the stage of a file's processing the script is at
Stage(p) ==
    CASE p = "start" -> 0
      [] p = "header" -> 1
      [] p = "read" -> 2
      [] p = "except" -> 3
      [] p = "preview" -> 4
      [] p = "detect" -> 5
      [] p = "select" -> 6
      [] p = "branch" -> 7
      [] p = "plot" -> 8
      [] p = "corr" -> 9
      [] p = "done" -> 10
      [] p = "aborted" -> 10

StepOrder ==
    /\ \/ idx' = idx /\ Stage(pc') >= Stage(pc)
       \/ idx' = idx + 1 /\ pc' = "header"
             /\ pc \in {"detect", "branch", "corr"}
    /\ Len(out') >= Len(out)
    /\ SubSeq(out', 1, Len(out)) = out
    /\ \A k \in (Len(out) + 1)..Len(out') : out'[k].file = idx

(* C7: files are processed one at a time in upload order: a step never     *)
(* goes back to an earlier file or an earlier stage of the same file, the  *)
(* next file starts at its header only after the current one is over, and  *)
(* within a file the stages are ingest, preview, numeric detection,        *)
(* selection, statistics and histograms, correlation; every element        *)
(* rendered belongs to the file being processed.                           *)
C7_UploadOrder == [][StepOrder]_vars

C7_Witness ==
    /\ pc = "done"
    /\ Len(uploaded_files) = 2
    /\ Kinds(ElementsOf(out, 0)) =
           <<"header", "preview", "multiselect", "describe", "histplot", "heatmap">>
    /\ HasKind(out, 1, "heatmap")
    /\ \A a, b \in 1..Len(out) : a < b => out[a].file <= out[b].file

\* what page o shows for file i, without its position in the batch
Results(o, i) ==
    LET OfFile(e) == e.file = i /\ e.kind # "header"
        es == SelectSeq(o, OfFile)
    IN [k \in 1..Len(es) |->
           [kind |-> es[k].kind, cols |-> es[k].cols, dflt |-> es[k].dflt,
            value |-> es[k].value, shape |-> es[k].shape, text |-> es[k].text]]

\* the two runs do not differ in what the user selected for the file
SameSelection(o1, i, o2, j) ==
    Picked(o1, i) = {} \/ Picked(o2, j) = {} \/ Picked(o1, i) = Picked(o2, j)

(* C8: what is rendered for a file (preview, numeric columns, statistics,  *)
(* histograms, correlation matrix, notices) depends only on the file, the  *)
(* configuration and the file's own column selection: the same file in two *)
(* batches, at any positions and among any other files, gets the same      *)
(* outputs.                                                                *)
C8_ResultsIndependentOfBatch ==
    (prev.ran /\ Finished) =>
        \A i \in 0..(Len(prev.files) - 1), j \in Indexes :
            (prev.files[i + 1] = FileAt(j) /\ SameSelection(prev.out, i, out, j)) =>
                Results(prev.out, i) = Results(out, j)

(* C9: the default selection offered by the selector is the first          *)
(* min(k, |N|) numeric columns, N being the numeric columns in the         *)
(* Dataset's column order and k the default-columns option (1..12): never  *)
(* empty, never longer than k, a subset of the options.                    *)
C9_DefaultPick ==
    \A k \in 1..Len(out) :
        out[k].kind = "multiselect" =>
            LET N == out[k].cols
                d == out[k].dflt
            IN
            /\ NumericInOrder(N, FileAt(out[k].file).table)
            /\ Len(d) = Min(max_cols_default, Len(N))
            /\ \A m \in 1..Len(d) : d[m] = N[m]
            /\ Len(d) >= 1
            /\ Len(d) <= max_cols_default
            /\ Range(d) \subseteq Range(N)

C9_Witness ==
    /\ max_cols_default = 2
    /\ pc = "branch"
    /\ numeric_cols = <<"x", "y", "z">>
    /\ default_pick = <<"x", "y">>
    /\ out[Len(out)].dflt = <<"x", "y">>

(* C10: the widget keys 'cols_<filename>_<index>' of two files at          *)
(* different positions of a batch differ, for all filenames (equal ones,   *)
(* and ones made of underscores and digits).                               *)
C10_WidgetKeysUnique ==
    (probe.made /\ probe.i1 # probe.i2) => probe.key1 # probe.key2

C10_Witness ==
    /\ probe.made
    /\ probe.n1 = <<"_", "1">>
    /\ probe.n2 = <<"_">>
    /\ probe.i1 = 0
    /\ probe.i2 = 10
    /\ probe.key1 # probe.key2

====
